---- MODULE Spec2Model ----
(***************************************************************************)
(* Model of the AVH provisioning client (scripts/avh.py) and of its        *)
(* console test (scripts/test_stm32_iot_http_webserver.py).                *)
(*                                                                         *)
(*   Spec      the whole run of avh.py: main, setupModel, waitForState,    *)
(*             runTests and the test entry point run_test, with the two    *)
(*             asyncio.wait_for timeouts as events that may fire at any    *)
(*             suspension point.                                           *)
(*   SpecWait  waitForState alone, for every target state.                 *)
(*   SpecPW    waitForPattern alone, over every text, every way of cutting *)
(*             its UTF-8 bytes into frames, and a few patterns.            *)
(*                                                                         *)
(* Strings are sequences of one-character strings; bytes are two-digit     *)
(* hexadecimal strings.                                                    *)
(***************************************************************************)
EXTENDS Integers, Sequences, FiniteSets, TLC

VARIABLES
    board,          \* args.board
    firmware,       \* args.firmware
    script,         \* args.script ("None" when no -s was given)
    pc,             \* the statement the run is at (the await it is suspended in)
    inflight,       \* TRUE while the awaited call has been sent and has not returned
    api_response,   \* setupModel's api_response while it holds the model listing
    chosenModel,    \* setupModel's chosenModel: index in the listing, 0 for None
    setup_vm,       \* setupModel's local vm ("None" until create-instance returned)
    vm,             \* main's local vm
    imageName,      \* the name= argument of the create-image call
    state,          \* waitForState's parameter state
    instanceState,  \* waitForState's local instanceState
    caller,         \* who called waitForState: "boot1", "boot2" or "standalone"
    wlog,           \* what this invocation of waitForState did, in order
    slept,          \* total time this invocation of waitForState slept
    wfsResult,      \* how this invocation of waitForState ended
    result,         \* run_test's local result
    texc,           \* the exception pending in run_test's try/finally
    testOutcome,    \* how test.run_test ended, as seen by runTests
    printed,        \* what was printed on standard output
    testTimedOut,   \* the per-test wait_for has expired
    outerTimedOut,  \* the whole-run wait_for has expired
    rebootPhase,    \* the remote instance's progress through the requested reboot
    trace,          \* the remote calls sent by the workflow, in order
    exc,            \* the exception propagating out of main ("none" if none)
    exitCode,       \* the process exit code ("running" until the process ends)
    utext,          \* the console text the instance writes
    frames,         \* the frames still to be delivered by the console
    delivered,      \* the frames waitForPattern has received, in order
    pattern,        \* waitForPattern's parameter pattern
    text,           \* waitForPattern's local text
    tested,         \* the lines handed to re.search, in order
    wpc,            \* the statement waitForPattern is at
    outcome         \* how waitForPattern ended

inputs == <<board, firmware, script>>
setupvars == <<api_response, chosenModel, setup_vm, imageName>>
waitvars == <<state, instanceState, caller, wlog, slept, wfsResult>>
testvars == <<result, texc, testOutcome, printed, testTimedOut>>
pwvars == <<utext, frames, delivered, pattern, text, tested, wpc, outcome>>
vars == <<board, firmware, script, pc, inflight, api_response, chosenModel,
          setup_vm, vm, imageName, state, instanceState, caller, wlog, slept,
          wfsResult, result, texc, testOutcome, printed, testTimedOut,
          outerTimedOut, rebootPhase, trace, exc, exitCode, utext, frames, delivered, pattern, text,
          tested, wpc, outcome>>

(***************************************************************************)
(* Bounds and input sets                                                   *)
(***************************************************************************)
MaxStrLen == 2
MaxModels == 2
MaxPolls == 3
MaxTextLen == 3

SleepInterval == 1

Strs(S, n) == UNION {[1..k -> S] : k \in 0..n}

FlavorChars == {"a", "A"}
Boards == Strs(FlavorChars, MaxStrLen)
Flavors == Strs(FlavorChars, MaxStrLen) \ {<<>>}
Catalogs == Strs(Flavors, MaxModels)
FirmwarePaths == {<<"f">>, <<"d", "/", "f">>, <<"d", "/">>}
Scripts == {"None", "test.py"}
States == {"off", "on", "error"}

(***************************************************************************)
(* setupModel: pure parts                                                  *)
(***************************************************************************)
\* str.startswith
StartsWith(s, prefix) ==
    /\ Len(prefix) <= Len(s)
    /\ SubSeq(s, 1, Len(prefix)) = prefix

RECURSIVE ScanModels(_, _, _)
ScanModels(models, b, i) ==
    IF i > Len(models) THEN 0
    ELSE IF StartsWith(models[i], b) THEN i
    ELSE ScanModels(models, b, i + 1)

RECURSIVE ScanModelsNoBreak(_, _, _, _)
ScanModelsNoBreak(models, b, i, chosen) ==
    IF i > Len(models) THEN chosen
    ELSE ScanModelsNoBreak(models, b, i + 1,
                           IF StartsWith(models[i], b) THEN i ELSE chosen)

\* the loop without its break: the last matching model wins
ChooseModelNoBreak(models, b) == ScanModelsNoBreak(models, b, 1, 0)

\* the for loop over the listing, leaving chosenModel (0 stands for None)
ChooseModel(models, b) == ScanModels(models, b, 1)

\* os.path.basename: what follows the last "/"
LastSlash(path) ==
    LET S == {i \in 1..Len(path) : path[i] = "/"}
    IN  IF S = {} THEN 0 ELSE CHOOSE i \in S : \A j \in S : j <= i

BasenameWhole(path) == path

Basename(path) == SubSeq(path, LastSlash(path) + 1, Len(path))

(***************************************************************************)
(* main: the finally block                                                 *)
(***************************************************************************)
NeedsDeleteAlways(v) == TRUE

\* if vm is not None
NeedsDelete(v) == v # "None"

\* An exception e ("none": normal completion) leaves the try block of main
\* with main's vm being v: the finally block deletes the instance, or the
\* run ends at once.
Finally(e, v) ==
    /\ exc' = e
    /\ IF NeedsDelete(v)
       THEN pc' = "delete" /\ exitCode' = exitCode
       ELSE pc' = "exited" /\ exitCode' = (IF e = "none" THEN 0 ELSE 1)

\* an await sends its call
Send(call) ==
    /\ pc = call
    /\ ~inflight
    /\ inflight' = TRUE
    /\ trace' = Append(trace, call)

(***************************************************************************)
(* waitForState                                                            *)
(***************************************************************************)
\* the call await waitForState(api_instance, vm, target) made by who
EnterWait(who, target) ==
    /\ pc' = "wfs_poll"
    /\ state' = target
    /\ caller' = who
    /\ instanceState' = "unset"
    /\ wlog' = <<>>
    /\ slept' = 0
    /\ wfsResult' = "running"

\* what v1_get_instance_state can answer: an instance that is down for its
\* reboot is not "on"
Pollable == IF rebootPhase = "down" THEN States \ {"on"} ELSE States

NumPolls(log) == Cardinality({i \in 1..Len(log) : log[i][1] = "poll"})

\* a loop that also stops, without raising, once the state is "error"
LoopCondLoose(s, target) == s # target /\ s # "error"

\* the while condition: instanceState != state
LoopCond(s, target) == s # target

IsErrorNever(s) == FALSE

\* instanceState == "error"
IsError(s) == s = "error"

\* waitForState returns to its caller; after the second boot wait setupModel
\* returns vm to main, which runs the test script if there is one
WfsReturn ==
    /\ wfsResult' = "returned"
    /\ CASE caller = "boot1" ->
              /\ pc' = "image"
              /\ trace' = Append(trace, "waited")
              /\ UNCHANGED <<vm, exc, exitCode>>
         [] caller = "boot2" ->
              /\ trace' = Append(trace, "waited")
              /\ vm' = setup_vm
              /\ IF script # "None"
                 THEN pc' = "t_load" /\ UNCHANGED <<exc, exitCode>>
                 ELSE Finally("none", setup_vm)
         [] OTHER ->
              /\ pc' = "wfs_done"
              /\ UNCHANGED <<vm, exc, exitCode, trace>>

\* the exception is dropped and setupModel goes on to the upload
WfsRaiseContinue(e, how) ==
    /\ wfsResult' = how
    /\ pc' = "image"
    /\ UNCHANGED <<vm, trace, exc, exitCode>>

\* an exception e leaves waitForState
WfsRaise(e, how) ==
    /\ wfsResult' = how
    /\ UNCHANGED <<vm, trace>>
    /\ IF caller = "standalone"
       THEN pc' = "wfs_done" /\ exc' = e /\ UNCHANGED exitCode
       ELSE Finally(e, vm)

\* instanceState = await api_instance.v1_get_instance_state(instance.id)
WfsPoll ==
    /\ pc = "wfs_poll"
    /\ \/ /\ ~inflight
          /\ NumPolls(wlog) < MaxPolls
          /\ inflight' = TRUE
          /\ wlog' = Append(wlog, <<"poll", "">>)
          /\ UNCHANGED <<pc, instanceState, wfsResult, vm, exc, exitCode, trace>>
       \/ /\ inflight
          /\ inflight' = FALSE
          /\ \/ \E s \in Pollable :
                  /\ instanceState' = s
                  /\ wlog' = Append(wlog, <<"got", s>>)
                  /\ pc' = "wfs_while"
                  /\ UNCHANGED <<wfsResult, vm, exc, exitCode, trace>>
             \/ /\ WfsRaise("ApiError", "failed")
                /\ UNCHANGED <<instanceState, wlog>>
    /\ UNCHANGED <<inputs, rebootPhase, setupvars, state, caller, slept, testvars,
                   outerTimedOut, pwvars>>

\* while (instanceState != state): if (instanceState == "error"): raise
WfsWhile ==
    /\ pc = "wfs_while"
    /\ IF ~LoopCond(instanceState, state)
       THEN /\ wlog' = Append(wlog, <<"cmp", "target">>)
            /\ WfsReturn
       ELSE /\ wlog' = wlog \o <<(<<"cmp", "target">>), (<<"cmp", "error">>)>>
            /\ IF IsError(instanceState)
               THEN WfsRaise("VMError", "raised")
               ELSE /\ pc' = "wfs_sleep"
                    /\ UNCHANGED <<wfsResult, vm, exc, exitCode, trace>>
    /\ UNCHANGED <<inputs, rebootPhase, inflight, setupvars, state, instanceState, caller,
                   slept, testvars, outerTimedOut, pwvars>>

\* the loop polling again without sleeping
WfsSleepSkip ==
    /\ pc = "wfs_sleep"
    /\ ~inflight
    /\ pc' = "wfs_poll"
    /\ UNCHANGED <<inputs, rebootPhase, inflight, setupvars, vm, waitvars, testvars,
                   outerTimedOut, trace, exc, exitCode, pwvars>>

\* a wait that gives up after its first sleep
WfsSleepTimeout ==
    /\ pc = "wfs_sleep"
    /\ \/ /\ ~inflight
          /\ inflight' = TRUE
          /\ wlog' = Append(wlog, <<"sleep", "">>)
          /\ UNCHANGED <<pc, slept, wfsResult, vm, exc, exitCode, trace>>
       \/ /\ inflight
          /\ inflight' = FALSE
          /\ slept' = slept + SleepInterval
          /\ IF slept >= 1
             THEN WfsRaise("Timeout", "raised")
             ELSE /\ pc' = "wfs_poll"
                  /\ UNCHANGED <<wfsResult, vm, exc, exitCode, trace>>
          /\ UNCHANGED wlog
    /\ UNCHANGED <<inputs, rebootPhase, setupvars, state, instanceState,
                   caller, testvars, outerTimedOut, pwvars>>

\* await asyncio.sleep(1)
WfsSleep ==
    /\ pc = "wfs_sleep"
    /\ \/ /\ ~inflight
          /\ inflight' = TRUE
          /\ wlog' = Append(wlog, <<"sleep", "">>)
          /\ UNCHANGED <<pc, slept>>
       \/ /\ inflight
          /\ inflight' = FALSE
          /\ slept' = slept + SleepInterval
          /\ pc' = "wfs_poll"
          /\ UNCHANGED wlog
    /\ UNCHANGED <<inputs, rebootPhase, setupvars, vm, state, instanceState, caller,
                   wfsResult, testvars, outerTimedOut, trace, exc, exitCode,
                   pwvars>>

(***************************************************************************)
(* main and setupModel                                                     *)
(***************************************************************************)
\* token_response = await api_instance.v1_auth_login(...), outside the try
Login ==
    /\ \/ /\ Send("login")
          /\ UNCHANGED <<pc, exc, exitCode>>
       \/ /\ pc = "login" /\ inflight
          /\ inflight' = FALSE
          /\ \/ pc' = "projects" /\ UNCHANGED <<exc, exitCode>>
             \/ pc' = "exited" /\ exc' = "ApiError" /\ exitCode' = 1
          /\ UNCHANGED trace
    /\ UNCHANGED <<inputs, rebootPhase, setupvars, vm, waitvars, testvars, outerTimedOut,
                   pwvars>>

\* api_response = await api_instance.v1_get_projects(); api_response[0].id
GetProjects ==
    /\ \/ /\ Send("projects")
          /\ UNCHANGED <<pc, exc, exitCode>>
       \/ /\ pc = "projects" /\ inflight
          /\ inflight' = FALSE
          /\ \/ pc' = "models" /\ UNCHANGED <<exc, exitCode>>
             \/ Finally("IndexError", vm)
             \/ Finally("ApiError", vm)
          /\ UNCHANGED trace
    /\ UNCHANGED <<inputs, rebootPhase, setupvars, vm, waitvars, testvars, outerTimedOut,
                   pwvars>>

\* api_response = await api_instance.v1_get_models(), the for loop choosing
\* chosenModel, and raise Exception("Board not found")
GetModels ==
    /\ \/ /\ Send("models")
          /\ UNCHANGED <<pc, exc, exitCode, api_response, chosenModel>>
       \/ /\ pc = "models" /\ inflight
          /\ inflight' = FALSE
          /\ \/ \E listing \in Catalogs :
                  /\ api_response' = listing
                  /\ chosenModel' = ChooseModel(listing, board)
                  /\ IF chosenModel' = 0
                     THEN Finally("BoardNotFound", vm)
                     ELSE pc' = "software" /\ UNCHANGED <<exc, exitCode>>
             \/ /\ Finally("ApiError", vm)
                /\ UNCHANGED <<api_response, chosenModel>>
          /\ UNCHANGED trace
    /\ UNCHANGED <<inputs, rebootPhase, setup_vm, imageName, vm, waitvars, testvars,
                   outerTimedOut, pwvars>>

\* api_response = await api_instance.v1_get_model_software(chosenModel.model);
\* chosenSoftware = api_response[0]
GetSoftware ==
    /\ \/ /\ Send("software")
          /\ UNCHANGED <<pc, exc, exitCode, api_response>>
       \/ /\ pc = "software" /\ inflight
          /\ inflight' = FALSE
          /\ \/ /\ pc' = "create"
                /\ api_response' = <<>>
                /\ UNCHANGED <<exc, exitCode>>
             \/ /\ Finally("IndexError", vm)
                /\ api_response' = <<>>
             \/ /\ Finally("ApiError", vm)
                /\ UNCHANGED api_response
          /\ UNCHANGED trace
    /\ UNCHANGED <<inputs, rebootPhase, chosenModel, setup_vm, imageName, vm, waitvars,
                   testvars, outerTimedOut, pwvars>>

\* vm = await api_instance.v1_create_instance({...}), then the first
\* await waitForState(api_instance, vm, "on")
CreateInstance ==
    /\ \/ /\ Send("create")
          /\ UNCHANGED <<pc, exc, exitCode, setup_vm, waitvars>>
       \/ /\ pc = "create" /\ inflight
          /\ inflight' = FALSE
          /\ \/ /\ setup_vm' = "vm1"
                /\ EnterWait("boot1", "on")
                /\ UNCHANGED <<exc, exitCode>>
             \/ /\ Finally("ApiError", vm)
                /\ UNCHANGED <<setup_vm, waitvars>>
          /\ UNCHANGED trace
    /\ UNCHANGED <<inputs, rebootPhase, api_response, chosenModel, imageName, vm, testvars,
                   outerTimedOut, pwvars>>

\* api_response = await api_instance.v1_create_image("fwbinary", "plain",
\*     name=os.path.basename(firmware), instance=vm.id, file=firmware)
CreateImage ==
    /\ \/ /\ Send("image")
          /\ imageName' = <<Basename(firmware)>>
          /\ UNCHANGED <<pc, exc, exitCode>>
       \/ /\ pc = "image" /\ inflight
          /\ inflight' = FALSE
          /\ \/ pc' = "reboot" /\ UNCHANGED <<exc, exitCode>>
             \/ Finally("ApiError", vm)
          /\ UNCHANGED <<trace, imageName>>
    /\ UNCHANGED <<inputs, rebootPhase, api_response, chosenModel, setup_vm, vm, waitvars,
                   testvars, outerTimedOut, pwvars>>

\* api_response = await api_instance.v1_reboot_instance(vm.id), then the
\* second await waitForState(api_instance, vm, "on")
Reboot ==
    /\ \/ /\ Send("reboot")
          /\ rebootPhase' = "requested"
          /\ UNCHANGED <<pc, exc, exitCode, waitvars>>
       \/ /\ pc = "reboot" /\ inflight
          /\ inflight' = FALSE
          /\ \/ /\ EnterWait("boot2", "on")
                /\ UNCHANGED <<exc, exitCode>>
             \/ /\ Finally("ApiError", vm)
                /\ UNCHANGED waitvars
          /\ UNCHANGED <<trace, rebootPhase>>
    /\ UNCHANGED <<inputs, setupvars, vm, testvars, outerTimedOut, pwvars>>

\* The remote instance carries out the reboot it was asked for, in its own
\* time: it leaves the state it was in when the request arrived ("requested"
\* becomes "down"), then comes back up ("up").
RemoteReboot ==
    /\ rebootPhase \in {"requested", "down"}
    /\ rebootPhase' = (IF rebootPhase = "requested" THEN "down" ELSE "up")
    /\ UNCHANGED <<inputs, pc, inflight, setupvars, vm, waitvars, testvars,
                   outerTimedOut, trace, exc, exitCode, pwvars>>

\* finally: if vm is not None: await api_instance.v1_delete_instance(vm.id);
\* then asyncio.run returns and exit(0), or the exception ends the process
Delete ==
    /\ \/ /\ Send("delete")
          /\ UNCHANGED <<pc, exc, exitCode>>
       \/ /\ pc = "delete" /\ inflight
          /\ inflight' = FALSE
          /\ pc' = "exited"
          /\ \/ /\ exitCode' = (IF exc = "none" THEN 0 ELSE 1)
                /\ UNCHANGED exc
             \/ /\ exc' = "ApiError"
                /\ exitCode' = 1
          /\ UNCHANGED trace
    /\ UNCHANGED <<inputs, rebootPhase, setupvars, vm, waitvars, testvars, outerTimedOut,
                   pwvars>>

(***************************************************************************)
(* runTests and run_test                                                   *)
(***************************************************************************)
TestPcs == {"t_console", "t_connect", "t_wait", "t_close"}
WaitPcs == {"wfs_poll", "wfs_while", "wfs_sleep"}

\* try falls through: print("Test passed"), and runTests returns to main
TestPass ==
    /\ printed' = Append(printed, "Test passed")
    /\ testOutcome' = "returned"
    /\ Finally("none", vm)

\* a handler that reports the failure and forgets to raise again
TestFailSwallow(kind) ==
    /\ printed' = printed \o <<"Test failed", "Test passed">>
    /\ testOutcome' = kind
    /\ Finally("none", vm)

\* except Exception as e: print(f"Test failed: {e}"); raise Exception("Test failed")
TestFail(kind) ==
    /\ printed' = Append(printed, "Test failed")
    /\ testOutcome' = kind
    /\ Finally("TestFailed", vm)

\* test = SourceFileLoader("test", script).load_module(), before the try
TLoad ==
    /\ pc = "t_load"
    /\ \/ pc' = "t_console" /\ UNCHANGED <<exc, exitCode>>
       \/ Finally("ImportError", vm)
    /\ UNCHANGED <<inputs, rebootPhase, inflight, setupvars, vm, waitvars, testvars,
                   outerTimedOut, trace, pwvars>>

\* consoleEndpoint = await api_instance.v1_get_instance_console(vm.id)
TConsole ==
    /\ \/ /\ Send("t_console")
          /\ UNCHANGED <<pc, exc, exitCode, printed, testOutcome>>
       \/ /\ pc = "t_console" /\ inflight
          /\ inflight' = FALSE
          /\ \/ /\ pc' = "t_connect"
                /\ UNCHANGED <<exc, exitCode, printed, testOutcome>>
             \/ TestFail("raised")
          /\ UNCHANGED trace
    /\ UNCHANGED <<inputs, rebootPhase, setupvars, vm, waitvars, result, texc, testTimedOut,
                   outerTimedOut, pwvars>>

\* console = await ws.connect(consoleEndpoint.url, ssl=ctx)
TConnect ==
    /\ \/ /\ Send("t_connect")
          /\ UNCHANGED <<pc, exc, exitCode, printed, testOutcome>>
       \/ /\ pc = "t_connect" /\ inflight
          /\ inflight' = FALSE
          /\ \/ /\ pc' = "t_wait"
                /\ UNCHANGED <<exc, exitCode, printed, testOutcome>>
             \/ TestFail("raised")
          /\ UNCHANGED trace
    /\ UNCHANGED <<inputs, rebootPhase, setupvars, vm, waitvars, result, texc, testTimedOut,
                   outerTimedOut, pwvars>>

\* run_test without its try/finally: an exception of waitForPattern leaves
\* run_test at once
TWaitNoFinally ==
    /\ \/ /\ Send("t_wait")
          /\ UNCHANGED <<pc, result, texc, testOutcome, printed, exc, exitCode>>
       \/ /\ pc = "t_wait" /\ inflight
          /\ inflight' = FALSE
          /\ \/ /\ pc' = "t_close"
                /\ result' \in {"match", "None"}
                /\ UNCHANGED <<texc, testOutcome, printed, exc, exitCode>>
             \/ /\ texc' = "Raised"
                /\ TestFail("raised")
                /\ UNCHANGED result
          /\ UNCHANGED trace
    /\ UNCHANGED <<inputs, rebootPhase, setupvars, vm, waitvars, testTimedOut,
                   outerTimedOut, pwvars>>

\* try: result = await waitForPattern(console, "STM32U5 Webserver Demonstration")
\* waitForPattern returns a match, returns None when the stream closed, or raises
TWait ==
    /\ \/ /\ Send("t_wait")
          /\ UNCHANGED <<pc, result, texc>>
       \/ /\ pc = "t_wait" /\ inflight
          /\ inflight' = FALSE
          /\ pc' = "t_close"
          /\ \/ result' = "match" /\ UNCHANGED texc
             \/ result' = "None" /\ UNCHANGED texc
             \/ texc' = "Raised" /\ UNCHANGED result
          /\ UNCHANGED trace
    /\ UNCHANGED <<inputs, rebootPhase, setupvars, vm, waitvars, testOutcome, printed,
                   testTimedOut, outerTimedOut, exc, exitCode, pwvars>>

\* finally: await console.close(); then run_test returns or raises again, and
\* runTests reports
TClose ==
    /\ \/ /\ Send("t_close")
          /\ UNCHANGED <<pc, exc, exitCode, printed, testOutcome>>
       \/ /\ pc = "t_close" /\ inflight
          /\ inflight' = FALSE
          /\ \/ /\ texc = "none"
                /\ \/ TestPass
                   \/ TestFail("raised")
             \/ /\ texc = "Raised"
                /\ TestFail("raised")
             \/ /\ texc = "TestCancelled"
                /\ TestFail("timeout")
             \/ /\ texc = "OuterCancelled"
                /\ testOutcome' = "cancelled"
                /\ Finally("TimeoutError", vm)
                /\ UNCHANGED printed
          /\ UNCHANGED trace
    /\ UNCHANGED <<inputs, rebootPhase, setupvars, vm, waitvars, result, texc, testTimedOut,
                   outerTimedOut, pwvars>>

\* asyncio.wait_for(test.run_test(api_instance, vm), timeout) expires: the
\* pending await of run_test is cancelled, its finally block runs, and
\* wait_for raises TimeoutError into the handler of runTests
TestTimeout ==
    /\ pc \in TestPcs /\ inflight
    /\ ~testTimedOut /\ ~outerTimedOut
    /\ testTimedOut' = TRUE
    /\ inflight' = FALSE
    /\ IF pc = "t_wait"
       THEN /\ pc' = "t_close"
            /\ texc' = "TestCancelled"
            /\ UNCHANGED <<exc, exitCode, printed, testOutcome>>
       ELSE /\ TestFail("timeout")
            /\ UNCHANGED texc
    /\ UNCHANGED <<inputs, rebootPhase, setupvars, vm, waitvars, result, outerTimedOut,
                   trace, pwvars>>

\* the expiry ends the process on the spot, no finally block runs
OuterTimeoutAbort ==
    /\ inflight /\ ~outerTimedOut
    /\ outerTimedOut' = TRUE
    /\ inflight' = FALSE
    /\ pc' = "exited"
    /\ exc' = "TimeoutError"
    /\ exitCode' = 1
    /\ UNCHANGED <<inputs, rebootPhase, setupvars, vm, waitvars, testvars,
                   trace, pwvars>>

\* asyncio.wait_for(main(args), 120) expires: the pending await of main is
\* cancelled and CancelledError unwinds through the finally blocks; then
\* asyncio.run raises TimeoutError
OuterTimeout ==
    /\ inflight /\ ~outerTimedOut
    /\ outerTimedOut' = TRUE
    /\ inflight' = FALSE
    /\ CASE pc \in {"login", "delete"} ->
              /\ pc' = "exited"
              /\ exc' = "TimeoutError"
              /\ exitCode' = 1
              /\ UNCHANGED <<wfsResult, texc, testOutcome>>
         [] pc \in WaitPcs ->
              /\ wfsResult' = "cancelled"
              /\ Finally("TimeoutError", vm)
              /\ UNCHANGED <<texc, testOutcome>>
         [] pc = "t_wait" ->
              /\ pc' = "t_close"
              /\ texc' = "OuterCancelled"
              /\ UNCHANGED <<wfsResult, exc, exitCode, testOutcome>>
         [] pc \in TestPcs \ {"t_wait"} ->
              /\ testOutcome' = "cancelled"
              /\ Finally("TimeoutError", vm)
              /\ UNCHANGED <<wfsResult, texc>>
         [] OTHER ->
              /\ Finally("TimeoutError", vm)
              /\ UNCHANGED <<wfsResult, texc, testOutcome>>
    /\ UNCHANGED <<inputs, rebootPhase, setupvars, vm, state, instanceState, caller, wlog,
                   slept, result, printed, testTimedOut, trace, pwvars>>

(***************************************************************************)
(* The whole run                                                           *)
(***************************************************************************)
IdleWait ==
    /\ state = "unset" /\ instanceState = "unset" /\ caller = "none"
    /\ wlog = <<>> /\ slept = 0 /\ wfsResult = "idle"

IdleTest ==
    /\ result = "unset" /\ texc = "none" /\ testOutcome = "none"
    /\ printed = <<>> /\ testTimedOut = FALSE

IdlePW ==
    /\ utext = <<>> /\ frames = <<>> /\ delivered = <<>> /\ pattern = <<>> /\ text = <<>>
    /\ tested = <<>> /\ wpc = "idle" /\ outcome = <<"unset">>

Init ==
    /\ board \in Boards
    /\ firmware \in FirmwarePaths
    /\ script \in Scripts
    /\ pc = "login" /\ inflight = FALSE
    /\ api_response = <<>> /\ chosenModel = 0
    /\ setup_vm = "None" /\ vm = "None" /\ imageName = <<>>
    /\ IdleWait /\ IdleTest /\ IdlePW
    /\ outerTimedOut = FALSE /\ rebootPhase = "none"
    /\ trace = <<>> /\ exc = "none" /\ exitCode = "running"

Next ==
    \/ Login
    \/ GetProjects
    \/ GetModels
    \/ GetSoftware
    \/ CreateInstance
    \/ WfsPoll
    \/ WfsWhile
    \/ WfsSleep
    \/ CreateImage
    \/ Reboot
    \/ RemoteReboot
    \/ TLoad
    \/ TConsole
    \/ TConnect
    \/ TWait
    \/ TClose
    \/ TestTimeout
    \/ OuterTimeout
    \/ Delete

Spec == Init /\ [][Next]_vars

(***************************************************************************)
(* waitForState alone, for every target                                    *)
(***************************************************************************)
IdleMain ==
    /\ board = <<>> /\ firmware = <<"f">> /\ script = "None"
    /\ api_response = <<>> /\ chosenModel = 0
    /\ setup_vm = "None" /\ vm = "None" /\ imageName = <<>>
    /\ outerTimedOut = FALSE /\ rebootPhase = "none"
    /\ trace = <<>> /\ exc = "none" /\ exitCode = "running"

InitWait ==
    /\ IdleMain /\ IdleTest /\ IdlePW
    /\ pc = "wfs_poll" /\ inflight = FALSE
    /\ state \in States
    /\ caller = "standalone"
    /\ instanceState = "unset"
    /\ wlog = <<>> /\ slept = 0 /\ wfsResult = "running"

NextWait ==
    \/ WfsPoll
    \/ WfsWhile
    \/ WfsSleep

SpecWait == InitWait /\ [][NextWait]_vars

(***************************************************************************)
(* waitForPattern                                                          *)
(***************************************************************************)
NL == "\n"
ConsoleChars == {"x", "e'", NL}

\* str.encode('utf-8') of one character: "e'" is U+00E9, two bytes
EncodeChar(c) ==
    CASE c = "x" -> <<"78">>
      [] c = NL -> <<"0A">>
      [] c = "e'" -> <<"C3", "A9">>

RECURSIVE Utf8Encode(_)
Utf8Encode(t) ==
    IF t = <<>> THEN <<>> ELSE EncodeChar(Head(t)) \o Utf8Encode(Tail(t))

\* bytes.decode('utf-8'), strict: a lead byte without its continuation
\* byte, or a continuation byte on its own, raises UnicodeDecodeError
RECURSIVE Utf8Decode(_)
Utf8Decode(b) ==
    IF b = <<>> THEN [ok |-> TRUE, s |-> <<>>]
    ELSE IF Head(b) \in {"78", "0A"}
    THEN LET r == Utf8Decode(Tail(b))
         IN  [ok |-> r.ok,
              s |-> <<(IF Head(b) = "78" THEN "x" ELSE NL)>> \o r.s]
    ELSE IF Head(b) = "C3" /\ Len(b) >= 2 /\ b[2] = "A9"
    THEN LET r == Utf8Decode(SubSeq(b, 3, Len(b)))
         IN  [ok |-> r.ok, s |-> <<"e'">> \o r.s]
    ELSE [ok |-> FALSE, s |-> <<>>]

\* every way of cutting a byte string into non-empty frames
RECURSIVE Cuts(_)
Cuts(b) ==
    IF b = <<>> THEN {<<>>}
    ELSE UNION {{<<SubSeq(b, 1, k)>> \o rest :
                    rest \in Cuts(SubSeq(b, k + 1, Len(b)))} : k \in 1..Len(b)}

Patterns == {<<"x">>, <<"e'">>, <<"x", "x">>}

\* re.search of a literal pattern: the start of the leftmost occurrence
\* (1-based), 0 when there is none
Search(p, line) ==
    LET S == {i \in 1..(Len(line) - Len(p) + 1) :
                 SubSeq(line, i, i + Len(p) - 1) = p}
    IN  IF S = {} THEN 0 ELSE CHOOSE i \in S : \A j \in S : i <= j

\* '\n' in text
HasNewline(t) == \E i \in 1..Len(t) : t[i] = NL

\* text.find('\n'), 1-based
FindNewline(t) == CHOOSE i \in 1..Len(t) : t[i] = NL /\ \A j \in 1..(i - 1) : t[j] # NL

\* async for message in console: text += message.decode('utf-8')
WpRecv ==
    /\ wpc = "wp_recv"
    /\ frames # <<>>
    /\ frames' = Tail(frames)
    /\ delivered' = Append(delivered, Head(frames))
    /\ LET d == Utf8Decode(Head(frames))
       IN  IF d.ok
           THEN /\ text' = text \o d.s
                /\ wpc' = "wp_scan"
                /\ UNCHANGED outcome
           ELSE /\ outcome' = <<"raise">>
                /\ wpc' = "wp_done"
                /\ UNCHANGED text
    /\ UNCHANGED <<utext, pattern, tested>>

\* while '\n' in text: split off the first line and re.search it
WpScan ==
    /\ wpc = "wp_scan"
    /\ IF HasNewline(text)
       THEN LET offset == FindNewline(text)
                line == SubSeq(text, 1, offset - 1)
            IN  /\ text' = SubSeq(text, offset + 1, Len(text))
                /\ tested' = Append(tested, line)
                /\ IF Search(pattern, line) # 0
                   THEN /\ outcome' = <<"match", line, Search(pattern, line)>>
                        /\ wpc' = "wp_done"
                   ELSE UNCHANGED <<outcome, wpc>>
       ELSE /\ wpc' = "wp_recv"
            /\ UNCHANGED <<text, tested, outcome>>
    /\ UNCHANGED <<utext, frames, delivered, pattern>>

\* at the end of the stream the remaining text is searched as a last line
WpCloseFlush ==
    /\ wpc = "wp_recv"
    /\ frames = <<>>
    /\ wpc' = "wp_done"
    /\ tested' = Append(tested, text)
    /\ outcome' = IF Search(pattern, text) # 0
                  THEN <<"match", text, Search(pattern, text)>>
                  ELSE <<"none">>
    /\ UNCHANGED <<utext, frames, delivered, pattern, text>>

\* the end of the stream reported as an error
WpCloseRaise ==
    /\ wpc = "wp_recv"
    /\ frames = <<>>
    /\ wpc' = "wp_done"
    /\ outcome' = <<"raise">>
    /\ UNCHANGED <<utext, frames, delivered, pattern, text, tested>>

\* the stream closed: the async for ends and the function returns None
WpClose ==
    /\ wpc = "wp_recv"
    /\ frames = <<>>
    /\ wpc' = "wp_done"
    /\ outcome' = <<"none">>
    /\ UNCHANGED <<utext, frames, delivered, pattern, text, tested>>

InitPW ==
    /\ IdleMain /\ IdleWait /\ IdleTest
    /\ pc = "idle" /\ inflight = FALSE
    /\ utext \in Strs(ConsoleChars, MaxTextLen)
    /\ frames \in Cuts(Utf8Encode(utext))
    /\ delivered = <<>>
    /\ pattern \in Patterns
    /\ text = <<>> /\ tested = <<>>
    /\ wpc = "wp_recv"
    /\ outcome = <<"unset">>

mainvars == <<inputs, rebootPhase, pc, inflight, setupvars, vm, waitvars, testvars,
              outerTimedOut, trace, exc, exitCode>>

NextPW ==
    \/ WpRecv /\ UNCHANGED mainvars
    \/ WpScan /\ UNCHANGED mainvars
    \/ WpClose /\ UNCHANGED mainvars

SpecPW == InitPW /\ [][NextPW]_vars

(***************************************************************************)
(* Properties                                                              *)
(***************************************************************************)
Count(x, seq) == Cardinality({i \in 1..Len(seq) : seq[i] = x})
Sent(call) == \E i \in 1..Len(trace) : trace[i] = call
Exited == pc = "exited"

\* C1: on every exit after create-instance returned an instance (the outer
\* timeout aside), the delete-instance call has been sent
C1_DeleteOnEveryExit ==
    (Exited /\ setup_vm # "None" /\ ~outerTimedOut) => Sent("delete")

\* C2: delete-instance is sent at most once, and only after create-instance
\* has returned an instance
C2_DeleteOnceOnlyIfCreated ==
    /\ Count("delete", trace) <= 1
    /\ Sent("delete") => (setup_vm # "None" /\ Sent("create"))
    /\ (Exited /\ ~Sent("create")) => ~Sent("delete")

C2_Witness ==
    /\ Exited
    /\ Count("delete", trace) = 1
    /\ exc = "TestFailed"

\* C3: with no test script and no failure, the run sends exactly create,
\* image (named by the firmware's base name), reboot and delete, with one
\* completed wait for "on" after create and one after reboot, calls no test
\* entry point, and exits with code 0
C3_HappyPath ==
    (Exited /\ script = "None" /\ exc = "none") =>
        /\ trace = <<"login", "projects", "models", "software", "create",
                     "waited", "image", "reboot", "waited", "delete">>
        /\ imageName = <<Basename(firmware)>>
        /\ imageName = <<[i \in 1..(Len(firmware) - LastSlash(firmware))
                            |-> firmware[LastSlash(firmware) + i]]>>
        /\ state = "on"
        /\ testOutcome = "none" /\ printed = <<>>
        /\ exitCode = 0

C3_Witness ==
    /\ Exited /\ script = "None" /\ exc = "none" /\ exitCode = 0
    /\ firmware = <<"d", "/", "f">>
    /\ imageName = <<(<<"f">>)>>
    /\ slept > 0

\* what waitForState did after the i-th entry of its log
After(i) == SubSeq(wlog, i + 1, Len(wlog))
Evaluated == wlog # <<>> /\ wlog[Len(wlog)][1] = "cmp"

\* C4 as stated: once a poll has fetched "error", the error check is the
\* next thing done, nothing follows it, and the wait has raised, whatever
\* the target
C4_ErrorCheckedFirst ==
    \A i \in 1..Len(wlog) :
        (wlog[i] = <<"got", "error">> /\ i < Len(wlog)) =>
            /\ After(i) = <<(<<"cmp", "error">>)>>
            /\ wfsResult = "raised"

\* C4 amended: a poll that fetched "error" is followed by no sleep and no
\* poll; each fetched state is first compared with the target and only then
\* with "error"; the wait raises when the target is not "error" and returns
\* normally when it is
C4_ErrorFailsUnlessTarget ==
    /\ \A i \in 1..Len(wlog) :
        wlog[i] = <<"got", "error">> =>
            \A j \in (i + 1)..Len(wlog) : wlog[j][1] = "cmp"
    /\ \A i \in 1..Len(wlog) :
        (wlog[i][1] = "got" /\ i < Len(wlog)) =>
            /\ wlog[i + 1] = <<"cmp", "target">>
            /\ After(i) # <<(<<"cmp", "target">>)>> =>
                   wlog[i + 2] = <<"cmp", "error">>
    /\ (instanceState = "error" /\ Evaluated) =>
           wfsResult = (IF state = "error" THEN "returned" ELSE "raised")

C4_Witness ==
    /\ wfsResult = "raised"
    /\ instanceState = "error"
    /\ state = "on"
    /\ slept > 0

Ops == SelectSeq(wlog, LAMBDA e : e[1] \in {"poll", "sleep"})
LastGot(i) ==
    LET S == {j \in 1..i : wlog[j][1] = "got"}
    IN  wlog[CHOOSE j \in S : \A k \in S : k <= j][2]

\* C5: polls and sleeps alternate, starting with a poll; every sleep lasts
\* 1; no sleep follows a poll that fetched the target or "error"
C5_PollSleepAlternate ==
    /\ \A i \in 1..Len(Ops) :
        Ops[i][1] = (IF i % 2 = 1 THEN "poll" ELSE "sleep")
    /\ slept = 1 * (Count(<<"sleep", "">>, wlog)
                    - (IF pc = "wfs_sleep" /\ inflight THEN 1 ELSE 0))
    /\ \A i \in 1..Len(wlog) :
        wlog[i][1] = "sleep" => LastGot(i) \notin {state, "error"}

C5_Witness ==
    /\ wfsResult = "returned"
    /\ NumPolls(wlog) >= 3
    /\ slept = NumPolls(wlog) - 1

\* the frames received so far all decode
AllDecode(fs) == \A i \in 1..Len(fs) : Utf8Decode(fs[i]).ok

\* the newline-terminated lines of a text, in order
RECURSIVE TerminatedLines(_)
TerminatedLines(t) ==
    IF \A i \in 1..Len(t) : t[i] # NL THEN <<>>
    ELSE LET n == CHOOSE i \in 1..Len(t) :
                      t[i] = NL /\ \A j \in 1..(i - 1) : t[j] # NL
         IN  <<SubSeq(t, 1, n - 1)>> \o TerminatedLines(SubSeq(t, n + 1, Len(t)))

\* what follows the last newline of a text
Unterminated(t) ==
    LET S == {i \in 1..Len(t) : t[i] = NL}
    IN  IF S = {} THEN t
        ELSE SubSeq(t, (CHOOSE i \in S : \A j \in S : j <= i) + 1, Len(t))

Contains(p, line) ==
    \E i \in 1..(Len(line) - Len(p) + 1) :
        \A k \in 1..Len(p) : line[i + k - 1] = p[k]

\* the scan of the single concatenated buffer: the match on the earliest
\* terminated line that satisfies the pattern, or no result
Reference(t, p) ==
    LET L == TerminatedLines(t)
        M == {i \in 1..Len(L) : Contains(p, L[i])}
    IN  IF M = {} THEN <<"none">>
        ELSE LET m == CHOOSE i \in M : \A j \in M : i <= j
             IN  <<"match", L[m], Search(p, L[m])>>

\* C6: however the stream is cut into frames, waitForPattern ends as the
\* scan of the single concatenated buffer does
C6_ChunkIndependence ==
    wpc = "wp_done" => outcome = Reference(utext, pattern)

\* C7: every line handed to re.search is a newline-terminated line of the
\* stream whose newline has been received; a match is a match on such a
\* line; text after the last newline is never searched
C7_OnlyTerminatedLines ==
    /\ Len(tested) <= Len(TerminatedLines(utext))
    /\ \A i \in 1..Len(tested) : tested[i] = TerminatedLines(utext)[i]
    /\ Len(tested) <= Count("0A", Utf8Encode(utext)) - Count(NL, text)
    /\ outcome[1] = "match" =>
           /\ tested # <<>>
           /\ outcome[2] = tested[Len(tested)]
    /\ (wpc = "wp_done" /\ outcome[1] # "raise"
            /\ Reference(utext, pattern) = <<"none">>) =>
           outcome = <<"none">>

C7_Witness ==
    /\ wpc = "wp_done"
    /\ frames = <<>>
    /\ outcome = <<"none">>
    /\ tested # <<>>
    /\ Contains(pattern, Unterminated(utext))

\* C8: when the stream closes (every frame was received and decoded) and no
\* completed line matched, waitForPattern ends without an error and
\* without a result
C8_CloseGivesNone ==
    (wpc = "wp_done" /\ frames = <<>> /\ AllDecode(delivered)
        /\ \A i \in 1..Len(tested) : ~Contains(pattern, tested[i])) =>
            outcome = <<"none">>

C8_Witness ==
    /\ wpc = "wp_done"
    /\ outcome = <<"none">>
    /\ Len(delivered) >= 2
    /\ Len(tested) >= 1

IsPrefixOf(p, s) == \E k \in 0..Len(s) : p = [i \in 1..k |-> s[i]]

\* C9: the chosen model is the first of the listing whose flavor has the
\* board as a prefix; when there is none the run fails with board-not-found
\* and sends neither get-model-software nor create-instance
C9_FirstPrefixMatch ==
    /\ pc = "software" =>
        /\ chosenModel \in 1..Len(api_response)
        /\ IsPrefixOf(board, api_response[chosenModel])
        /\ \A j \in 1..(chosenModel - 1) : ~IsPrefixOf(board, api_response[j])
    /\ (Exited /\ Sent("models") /\ ~Sent("software")
            /\ exc \notin {"ApiError", "IndexError", "TimeoutError"}) =>
        exc = "BoardNotFound"
    /\ exc = "BoardNotFound" =>
        /\ \A j \in 1..Len(api_response) : ~IsPrefixOf(board, api_response[j])
        /\ chosenModel = 0
        /\ ~Sent("software") /\ ~Sent("create")
        /\ Exited /\ exitCode = 1

C9_Witness ==
    /\ pc = "software"
    /\ chosenModel = 1
    /\ Len(api_response) = 2
    /\ api_response[1] # api_response[2]
    /\ IsPrefixOf(board, api_response[2])
    /\ board # <<>>

\* C10: when the test entry point raised or ran past the per-test timeout,
\* "Test failed" and nothing else was printed, an error is propagating out
\* of main, and the run ends only after sending delete-instance, with a
\* non-zero code; "Test passed" is printed only when the entry point
\* returned normally before the timeout
C10_TestFailureReported ==
    /\ testOutcome \in {"raised", "timeout"} =>
        /\ printed = <<"Test failed">>
        /\ exc # "none"
        /\ pc \in {"delete", "exited"}
        /\ Exited => (Sent("delete") /\ exitCode = 1)
    /\ (\E i \in 1..Len(printed) : printed[i] = "Test passed") =>
        /\ printed = <<"Test passed">>
        /\ testOutcome = "returned"
        /\ texc = "none" /\ result # "unset"
        /\ ~testTimedOut
    /\ (testTimedOut /\ ~outerTimedOut /\ pc \in {"delete", "exited"}) =>
        testOutcome = "timeout"

C10_Witness ==
    /\ Exited
    /\ testOutcome = "timeout"
    /\ texc = "TestCancelled"
    /\ Sent("delete")

(***************************************************************************)
(* waitForState alone, scheduled: the event loop resumes a coroutine that  *)
(* can run                                                                 *)
(***************************************************************************)
SpecWaitFair == InitWait /\ [][NextWait]_vars /\ WF_vars(NextWait)

(***************************************************************************)
(* Properties, continued                                                   *)
(***************************************************************************)
Last(seq) == seq[Len(seq)]
IsPrefix(a, b) == Len(a) <= Len(b) /\ a = SubSeq(b, 1, Len(a))

\* C11 as stated: a run ended by the outer timeout after main received the
\* instance has sent no delete-instance
C11_OuterTimeoutLeaks ==
    (Exited /\ outerTimedOut /\ vm # "None") => ~Sent("delete")

\* C11 amended: when the outer timeout expires after main received the
\* instance, the run goes through the finally block: it ends only after
\* delete-instance was sent, with a non-zero code; the instance is leaked
\* only when the timeout expires before main received it
C11_OuterTimeoutRunsFinally ==
    /\ (outerTimedOut /\ vm # "None") => pc \in {"t_close", "delete", "exited"}
    /\ (Exited /\ outerTimedOut /\ vm # "None") =>
           (Sent("delete") /\ exitCode = 1 /\ exc # "none")
    /\ (Exited /\ outerTimedOut /\ vm = "None") =>
           (~Sent("delete") /\ exitCode = 1)

C11_Witness ==
    /\ Exited /\ outerTimedOut
    /\ testOutcome = "cancelled"
    /\ Last(trace) = "delete"
    /\ Count("delete", trace) = 1

\* C12: the process ends with code 0 exactly when no error left main, and
\* no failure ends in code 0: then no timeout expired, both boot waits
\* returned, delete-instance was the last call, and the test (if any)
\* returned after finding its pattern
C12_NoFailureSwallowed ==
    Exited =>
        /\ exitCode \in {0, 1}
        /\ exitCode = 0 <=> exc = "none"
        /\ exitCode = 0 =>
            /\ ~outerTimedOut /\ ~testTimedOut
            /\ caller = "boot2" /\ wfsResult = "returned"
            /\ texc = "none"
            /\ testOutcome = (IF script = "None" THEN "none" ELSE "returned")
            /\ Last(trace) = "delete"
            /\ result # "None"

\* C13: when waitForPattern returned None (the stream closed without a
\* match), the run reports "Test failed" and never "Test passed"
C13_ClosedStreamFails ==
    /\ result = "None" => \A i \in 1..Len(printed) : printed[i] # "Test passed"
    /\ (result = "None" /\ ~outerTimedOut /\ pc \in {"delete", "exited"}) =>
           printed = <<"Test failed">>

\* C14: the second boot wait returns only once the instance has gone down
\* for the reboot and come back up
C14_SecondWaitAfterReboot ==
    (caller = "boot2" /\ wfsResult = "returned") => rebootPhase = "up"

\* C15: waitForState returns only right after comparing a just fetched state
\* equal to the target; when the first poll fetched the target it returns
\* with one poll and no sleep
C15_ReturnsOnlyOnTarget ==
    /\ wfsResult = "returned" =>
        /\ instanceState = state
        /\ Len(wlog) >= 3
        /\ Last(wlog) = <<"cmp", "target">>
        /\ wlog[Len(wlog) - 1] = <<"got", state>>
    /\ (Len(wlog) >= 2 /\ wlog[2] = <<"got", state>> /\ pc # "wfs_while") =>
        /\ wfsResult = "returned"
        /\ NumPolls(wlog) = 1
        /\ slept = 0
        /\ Count(<<"sleep", "">>, wlog) = 0

C15_Witness ==
    /\ wfsResult = "returned"
    /\ state = "off"
    /\ NumPolls(wlog) = 1
    /\ slept = 0

Terminal(s) == s \in {state, "error"}

\* C16: waitForState ends by itself only on a fetched target or "error";
\* after fetching any other state it is still running and goes on to sleep
\* and poll, however many polls were made; a fetched target or "error" leads
\* to its return or raise, and every sleep leads to the next poll
C16_NoOwnTimeout ==
    /\ [](wfsResult \in {"returned", "raised"} => Terminal(instanceState))
    /\ []((Evaluated /\ ~Terminal(instanceState)) =>
              (wfsResult = "running" /\ pc = "wfs_sleep"))
    /\ ((pc = "wfs_while" /\ Terminal(instanceState)) ~>
            wfsResult \in {"returned", "raised"})
    /\ (pc = "wfs_sleep" ~> pc = "wfs_poll")

C16_Witness ==
    /\ wfsResult = "running"
    /\ NumPolls(wlog) = MaxPolls
    /\ pc = "wfs_poll" /\ ~inflight
    /\ \A i \in 1..Len(wlog) : wlog[i][1] = "got" => wlog[i][2] = "off"

Provisioning ==
    <<"login", "projects", "models", "software", "create", "waited", "image",
      "reboot", "waited">>
TestCalls == <<"t_console", "t_connect", "t_wait", "t_close">>
BeforeDelete == SelectSeq(trace, LAMBDA c : c # "delete")

\* C17: the calls are sent in program order, none skipped, the one in flight
\* being the last one sent; delete-instance comes last; after an error, or a
\* boot wait that did not return, nothing but delete-instance follows; the
\* test entry point runs only with a script and after two completed waits
C17_ProgramOrder ==
    /\ IsPrefix(BeforeDelete, Provisioning \o TestCalls)
    /\ Sent("delete") => (Last(trace) = "delete" /\ Count("delete", trace) = 1)
    /\ (inflight /\ pc \notin WaitPcs) => Last(trace) = pc
    /\ (inflight /\ pc \in WaitPcs) =>
           (Last(wlog)[1] = (IF pc = "wfs_poll" THEN "poll" ELSE "sleep"))
    /\ exc # "none" => pc \in {"delete", "exited"}
    /\ wfsResult \in {"raised", "failed", "cancelled"} =>
        /\ pc \in {"delete", "exited"}
        /\ ~Sent("t_console")
        /\ Count("waited", trace) = (IF caller = "boot1" THEN 0 ELSE 1)
        /\ caller = "boot1" => (~Sent("image") /\ ~Sent("reboot"))
    /\ Sent("t_console") =>
        /\ script # "None"
        /\ Count("waited", trace) = 2
        /\ vm = setup_vm /\ vm # "None"

C17_Witness ==
    /\ Exited
    /\ caller = "boot1" /\ wfsResult = "raised"
    /\ trace = <<"login", "projects", "models", "software", "create">>

\* C18: an error before create-instance was sent ends the run at once, with
\* a non-zero code: no create-instance, no wait, no upload, no reboot, no
\* test and no delete-instance
C18_FatalBeforeCreate ==
    (exc # "none" /\ ~Sent("create")) =>
        /\ Exited /\ exitCode = 1
        /\ IsPrefix(trace, <<"login", "projects", "models", "software">>)
        /\ setup_vm = "None" /\ vm = "None"
        /\ wfsResult = "idle" /\ wlog = <<>>
        /\ testOutcome = "none"
        /\ ~inflight

C18_Witness ==
    /\ Exited
    /\ exc = "IndexError"
    /\ trace = <<"login", "projects", "models", "software">>

\* C19: console.close() is sent at most once, only after the pattern wait
\* began, and exactly once by the time the test is over, however the
\* pattern wait ended
C19_ConsoleClosedOnce ==
    /\ Count("t_close", trace) <= 1
    /\ Sent("t_close") => Sent("t_wait")
    /\ (Sent("t_wait") /\ pc \in {"delete", "exited"}) =>
           Count("t_close", trace) = 1
    /\ (Sent("t_wait") /\ testOutcome # "none") => Sent("t_close")

C19_Witness ==
    /\ Exited
    /\ texc = "Raised"
    /\ Count("t_close", trace) = 1
    /\ printed = <<"Test failed">>

====
